---- MODULE Spec2Model ----
(***************************************************************************)
(* Model of src/mini_fastapi.py: the Fastapi route table, the recursive    *)
(* dependency resolver Fastapi._solve_dependencies and the request driver  *)
(* Fastapi.run_request, run by two threads that share one Fastapi object;   *)
(* and of the lazy QuerySet of src/django_orm.py.                          *)
(***************************************************************************)
EXTENDS Integers, Sequences, FiniteSets, TLC

\* ------------------------------------------------------------------------
\* Bounds
\* ------------------------------------------------------------------------
\* total number of run_request calls made in one behaviour
MaxRequests == 2
\* depth of nested _solve_dependencies frames at which the interpreter
\* raises RecursionError
RecursionLimit == 4
\* number of QuerySet objects created in one behaviour
MaxQuerySets == 3
\* number of times a QuerySet is iterated in one behaviour
MaxExecuted == 1

\* ------------------------------------------------------------------------
\* Values
\* ------------------------------------------------------------------------
None == "None"
Unbound == "<unbound>"
EmptyMap == [x \in {} |-> None]

Threads == {"t1", "t2"}
Paths == {"/users/me"}

\* Depends(dependency): the marker object put in a parameter's default
Depends(dependency) == [type |-> "Depends", dependency |-> dependency]
\* a default that is not a Depends instance, and inspect.Parameter.empty
PlainDefault == [type |-> "value", dependency |-> None]
NoDefault == [type |-> "empty", dependency |-> None]
Param(name, default) == [name |-> name, default |-> default]

\* The callables the application defines.  body is "return" for a function
\* that returns its value and "yield" for a setup/teardown generator
\* function; release says how the code after the yield ends.
Def(params, body, release) ==
    [params |-> params, body |-> body, release |-> release]

Functions ==
    \* the three functions of the source's usage section
    [ get_db_connection |-> Def(<<>>, "yield", "returns"),
      get_user_from_db |->
          Def(<<Param("conn", Depends("get_db_connection"))>>, "return", None),
      get_current_user_profile |->
          Def(<<Param("user", Depends("get_user_from_db"))>>, "return", None),
      \* chain of two scoped providers; P2's release raises
      P1 |-> Def(<<>>, "yield", "returns"),
      P2 |-> Def(<<Param("p1", Depends("P1"))>>, "yield", "raises"),
      HB |-> Def(<<Param("p2", Depends("P2"))>>, "return", None),
      \* diamond: A and B both depend on the scoped provider C
      C |-> Def(<<>>, "yield", "returns"),
      A |-> Def(<<Param("c", Depends("C"))>>, "return", None),
      B |-> Def(<<Param("c", Depends("C"))>>, "return", None),
      HC |-> Def(<<Param("a", Depends("A")), Param("b", Depends("B"))>>,
                 "return", None),
      \* cycle X -> Y -> X behind an ordinary provider
      D0 |-> Def(<<>>, "return", None),
      X |-> Def(<<Param("y", Depends("Y"))>>, "return", None),
      Y |-> Def(<<Param("x", Depends("X"))>>, "return", None),
      HX |-> Def(<<Param("d", Depends("D0")), Param("x", Depends("X"))>>,
                 "return", None),
      \* plain parameters: one with a default, one without
      HP |-> Def(<<Param("d", Depends("D0")), Param("limit", PlainDefault)>>,
                 "return", None),
      R |-> Def(<<Param("n", NoDefault)>>, "return", None),
      HR |-> Def(<<Param("r", Depends("R"))>>, "return", None) ]

Funcs == DOMAIN Functions
\* the functions the application registers with app.get(path)
Handlers == {"get_current_user_profile", "HB", "HC", "HX", "HP", "HR"}

\* inspect.signature(func).parameters, in declaration order
Parameters(func) == Functions[func].params

\* type(obj) of a callable written with def: always the function type,
\* whether or not its body contains a yield
TypeOf(func) == "function"

\* inspect.isgeneratorfunction(func): the body contains a yield
isgeneratorfunction(func) == Functions[func].body = "yield"

\* inspect.isgenerator(obj): isinstance(obj, types.GeneratorType)
isgenerator(obj) == TypeOf(obj) = "generator"

\* the object a provider hands back: a plain value, or a generator handle;
\* req and n tell the invocation that made it (request, position in trace)
Value(func, req, n) == [kind |-> "value", by |-> func, req |-> req, n |-> n]
Generator(func, req, n) ==
    [kind |-> "generator", by |-> func, req |-> req, n |-> n]

\* exceptions
Exc(type, by) == [type |-> type, by |-> by, param |-> None]
\* KeyError(name) raised while func's parameter name was being processed
KeyError(func, name) == [type |-> "KeyError", by |-> func, param |-> name]
\* no exception in flight
NoExc == Exc(None, None)

\* trace events (history of what the callables observed)
Event(op, fn, args) == [op |-> op, fn |-> fn, args |-> args]

\* Python's d[k] = v
Put(d, k, v) == [x \in DOMAIN d \cup {k} |-> IF x = k THEN v ELSE d[x]]

Reverse(s) == [i \in 1..Len(s) |-> s[Len(s) + 1 - i]]

VARIABLES
    routes,            \* Fastapi.routes: path -> registered function
    registered,        \* history: path -> function last passed to get(path)
    served,            \* number of run_request calls started so far
    pc,                \* per thread: where its run_request call stands
    endpoint_fun,      \* per thread: run_request's local endpoint_fun
    stack,             \* per thread: the _solve_dependencies frames
    request_cache,     \* per scope: run_request's local request_cache
    context_managers,  \* per scope: run_request's local context_managers
    solved_kwargs,     \* per thread: run_request's local solved_kwargs
    exc,               \* per thread: the exception in flight, or None
    outcome,           \* per thread: how its last run_request call ended
    reqid,             \* per thread: serial number of its current request
    prev,              \* per thread: handler and outcome of the request before
    trace,             \* per thread: events of its current request
    querysets,         \* heap of QuerySet objects: id -> model and _filters
    lists,             \* heap of list objects: id -> items
    executed,          \* history: what each __iter__ got from _build_sql
    last_call          \* history: the last QuerySet/Manager method called

fastapiVars ==
    <<routes, registered, served, pc, endpoint_fun, stack, request_cache,
      context_managers, solved_kwargs, exc, outcome, reqid, prev, trace>>

qsVars == <<querysets, lists, executed, last_call>>

vars == <<fastapiVars, qsVars>>

\* no QuerySet or Manager method has been called yet
NoCall == [seq |-> 0, op |-> None, self |-> 0, kwargs |-> <<>>, result |-> 0]

\* a cache and a teardown list kept on the shared Fastapi object
ScopeShared(t) == "t1"

\* request_cache = {} and context_managers = [] are locals of run_request:
\* every call, hence every thread, refers to its own pair
Scope(t) == t

Init ==
    /\ routes = [p \in Paths |-> None]
    /\ registered = [p \in Paths |-> None]
    /\ served = 0
    /\ pc = [t \in Threads |-> "idle"]
    /\ endpoint_fun = [t \in Threads |-> None]
    /\ stack = [t \in Threads |-> <<>>]
    /\ request_cache = [t \in Threads |-> EmptyMap]
    /\ context_managers = [t \in Threads |-> <<>>]
    /\ solved_kwargs = [t \in Threads |-> EmptyMap]
    /\ exc = [t \in Threads |-> NoExc]
    /\ outcome = [t \in Threads |-> "none"]
    /\ reqid = [t \in Threads |-> 0]
    /\ prev = [t \in Threads |-> [fn |-> None, outcome |-> "none"]]
    /\ trace = [t \in Threads |-> <<>>]
    /\ querysets = <<>>
    /\ lists = <<>>
    /\ executed = <<>>
    /\ last_call = NoCall

\* ------------------------------------------------------------------------
\* Helpers of the resolver
\* ------------------------------------------------------------------------
\* an activation that starts behind its last parameter: no recursion into
\* the dependencies of func
NewFrameNoRecursion(func) ==
    [func |-> func, i |-> Len(Parameters(func)) + 1,
     kwargs_to_pass |-> EmptyMap, dep_func |-> Unbound]

\* a fresh activation of _solve_dependencies(func, ...): kwargs_to_pass = {},
\* the loop stands at the first parameter, dep_func is not yet bound
NewFrame(func) ==
    [func |-> func, i |-> 1, kwargs_to_pass |-> EmptyMap, dep_func |-> Unbound]

Top(t) == stack[t][Len(stack[t])]

ReplaceTop(stk, frame) == [stk EXCEPT ![Len(stk)] = frame]

\* a cache that is not emptied when a request starts
NewRequestCacheKept(old) == old

\* request_cache = {} at the start of run_request; old is what the name
\* referred to before
NewRequestCache(old) == EmptyMap

\* a lookup that never hits
InCacheNever(cache, dep_func) == FALSE

\* dep_func in request_cache
InCache(cache, dep_func) == dep_func \in DOMAIN cache

\* what dep_func(**sub_dependencies) hands back when it does not raise:
\* calling a generator function only creates the suspended generator
CallResult(dep_func, req, n) ==
    IF isgeneratorfunction(dep_func)
    THEN Generator(dep_func, req, n)
    ELSE Value(dep_func, req, n)

\* calling a generator function runs none of its body, so only a function
\* that returns can raise when called
CallCanRaise(func) == ~isgeneratorfunction(func)

\* an exception that is swallowed: run_request goes on to call the endpoint
RaiseSwallowed(t, e) ==
    /\ exc' = [exc EXCEPT ![t] = e]
    /\ stack' = [stack EXCEPT ![t] = <<>>]
    /\ pc' = [pc EXCEPT ![t] = "invoking"]

\* an exception that unwinds the frames but never reaches the finally block
RaiseStuck(t, e) ==
    /\ exc' = [exc EXCEPT ![t] = e]
    /\ stack' = [stack EXCEPT ![t] = <<>>]
    /\ pc' = [pc EXCEPT ![t] = "resolving"]

\* an exception leaves _solve_dependencies or the endpoint: every frame is
\* unwound and control reaches the finally block of run_request
Raise(t, e) ==
    /\ exc' = [exc EXCEPT ![t] = e]
    /\ stack' = [stack EXCEPT ![t] = <<>>]
    /\ pc' = [pc EXCEPT ![t] = "teardown"]

\* the loop of the finally block over reversed(context_managers):
\* next(gen, None) resumes the generator after its yield; only StopIteration
\* is caught, any other exception leaves the loop
RECURSIVE TeardownLoop(_)
TeardownLoop(gens) ==
    IF gens = <<>>
    THEN [events |-> <<>>, exc |-> NoExc]
    ELSE LET gen == Head(gens) IN
         IF Functions[gen.by].release = "raises"
         THEN [events |-> <<Event("release", gen.by, EmptyMap),
                            Event("release_raise", gen.by, EmptyMap)>>,
               exc |-> Exc("ReleaseError", gen.by)]
         ELSE LET rest == TeardownLoop(Tail(gens)) IN
              [events |-> <<Event("release", gen.by, EmptyMap)>> \o rest.events,
               exc |-> rest.exc]

\* ------------------------------------------------------------------------
\* Actions
\* ------------------------------------------------------------------------
\* a registration that keeps the function already bound to the path
GetKeepsFirst(path, func) ==
    /\ routes' = IF routes[path] = None
                 THEN [routes EXCEPT ![path] = func]
                 ELSE routes
    /\ registered' = [registered EXCEPT ![path] = func]
    /\ UNCHANGED <<qsVars, served, pc, endpoint_fun, stack, request_cache,
                   context_managers, solved_kwargs, exc, outcome, reqid,
                   prev, trace>>

\* @app.get(path) applied to func
Get(path, func) ==
    /\ routes' = [routes EXCEPT ![path] = func]
    /\ registered' = [registered EXCEPT ![path] = func]
    /\ UNCHANGED <<qsVars, served, pc, endpoint_fun, stack, request_cache,
                   context_managers, solved_kwargs, exc, outcome, reqid,
                   prev, trace>>

\* run_request(path) up to the first call of _solve_dependencies
RunRequest(t, path) ==
    /\ pc[t] = "idle"
    /\ served < MaxRequests
    /\ served' = served + 1
    /\ reqid' = [reqid EXCEPT ![t] = served + 1]
    /\ prev' = [prev EXCEPT ![t] = [fn |-> endpoint_fun[t],
                                    outcome |-> outcome[t]]]
    /\ endpoint_fun' = [endpoint_fun EXCEPT ![t] = routes[path]]
    /\ trace' = [trace EXCEPT ![t] = <<>>]
    /\ exc' = [exc EXCEPT ![t] = NoExc]
    /\ solved_kwargs' = [solved_kwargs EXCEPT ![t] = EmptyMap]
    /\ UNCHANGED <<qsVars, routes, registered>>
    /\ IF routes[path] = None
       THEN /\ outcome' = [outcome EXCEPT ![t] = "404"]
            /\ UNCHANGED <<pc, stack, request_cache, context_managers>>
       ELSE /\ outcome' = [outcome EXCEPT ![t] = "none"]
            /\ request_cache' =
                   [request_cache EXCEPT ![Scope(t)] = NewRequestCache(@)]
            /\ context_managers' =
                   [context_managers EXCEPT ![Scope(t)] = <<>>]
            /\ stack' = [stack EXCEPT ![t] = <<NewFrame(routes[path])>>]
            /\ pc' = [pc EXCEPT ![t] = "resolving"]

\* a loop that goes on to the next parameter when there is no marker
CacheWriteSkipped(t, frame, param) ==
    /\ stack' = [stack EXCEPT ![t] = ReplaceTop(@, [frame EXCEPT !.i = @ + 1])]
    /\ UNCHANGED <<pc, exc, request_cache>>

\* the last statement of the loop body, reached by a parameter without a
\* marker: request_cache[dep_func] = kwargs_to_pass[name], whose right side
\* is evaluated first
CacheWriteUnmarked(t, frame, param) ==
    IF param.name \notin DOMAIN frame.kwargs_to_pass
    THEN /\ Raise(t, KeyError(frame.func, param.name))
         /\ UNCHANGED request_cache
    ELSE IF frame.dep_func = Unbound
    THEN /\ Raise(t, Exc("UnboundLocalError", frame.func))
         /\ UNCHANGED request_cache
    ELSE /\ request_cache' = [request_cache EXCEPT ![Scope(t)] =
               Put(@, frame.dep_func, frame.kwargs_to_pass[param.name])]
         /\ stack' = [stack EXCEPT ![t] = ReplaceTop(@,
               [frame EXCEPT !.i = @ + 1])]
         /\ UNCHANGED <<pc, exc>>

\* one iteration of the for loop of _solve_dependencies, up to the recursive
\* call: a cache hit, a recursive call, or a parameter without a marker
SolveParameter(t) ==
    /\ pc[t] = "resolving"
    /\ stack[t] # <<>>
    /\ LET frame == Top(t)
           cache == request_cache[Scope(t)]
       IN
       /\ frame.i <= Len(Parameters(frame.func))
       /\ LET param == Parameters(frame.func)[frame.i] IN
          IF param.default.type = "Depends"
          THEN LET dep_func == param.default.dependency IN
               IF InCache(cache, dep_func)
               THEN /\ stack' = [stack EXCEPT ![t] = ReplaceTop(@,
                          [frame EXCEPT
                             !.kwargs_to_pass =
                                 Put(@, param.name, cache[dep_func]),
                             !.dep_func = dep_func,
                             !.i = @ + 1])]
                    /\ UNCHANGED <<pc, exc, request_cache>>
               ELSE IF Len(stack[t]) >= RecursionLimit
               THEN /\ Raise(t, Exc("RecursionError", dep_func))
                    /\ UNCHANGED request_cache
               ELSE /\ stack' = [stack EXCEPT ![t] =
                          Append(ReplaceTop(@,
                                     [frame EXCEPT !.dep_func = dep_func]),
                                 NewFrame(dep_func))]
                    /\ UNCHANGED <<pc, exc, request_cache>>
          ELSE CacheWriteUnmarked(t, frame, param)
    /\ UNCHANGED <<qsVars, routes, registered, served,
                   endpoint_fun, context_managers,
                   solved_kwargs, outcome, reqid, prev, trace>>

\* the recursive call returns sub_dependencies; the caller invokes dep_func
\* with them, stores the result under the parameter's name and in the cache
InvokeDependency(t) ==
    /\ pc[t] = "resolving"
    /\ Len(stack[t]) > 1
    /\ LET callee == Top(t)
           caller == stack[t][Len(stack[t]) - 1]
           dep_func == caller.dep_func
           name == Parameters(caller.func)[caller.i].name
           sub_dependencies == callee.kwargs_to_pass
           call == Event("call", dep_func, sub_dependencies)
           Store(value) ==
               /\ stack' = [stack EXCEPT ![t] = ReplaceTop(
                      SubSeq(@, 1, Len(@) - 1),
                      [caller EXCEPT
                         !.kwargs_to_pass = Put(@, name, value),
                         !.i = @ + 1])]
               /\ request_cache' = [request_cache EXCEPT ![Scope(t)] =
                      Put(@, dep_func, value)]
               /\ UNCHANGED <<pc, exc>>
       IN
       /\ callee.i > Len(Parameters(callee.func))
       /\ \E ok \in BOOLEAN :
            IF isgenerator(dep_func)
            THEN \* gen = dep_func(**sub_dependencies); next(gen)
                 LET gen == Generator(dep_func, reqid[t], Len(trace[t]) + 1) IN
                 IF ok
                 THEN /\ Store(Value(dep_func, reqid[t], Len(trace[t]) + 1))
                      /\ context_managers' = [context_managers EXCEPT
                             ![Scope(t)] = Append(@, gen)]
                      /\ trace' = [trace EXCEPT ![t] = @ \o
                             <<call, Event("acquire", dep_func, EmptyMap)>>]
                 ELSE /\ Raise(t, Exc("ProviderError", dep_func))
                      /\ trace' = [trace EXCEPT ![t] = @ \o
                             <<call, Event("raise", dep_func, EmptyMap)>>]
                      /\ UNCHANGED <<request_cache, context_managers>>
            ELSE \* result = dep_func(**sub_dependencies)
                 IF ok
                 THEN /\ Store(CallResult(dep_func, reqid[t],
                                       Len(trace[t]) + 1))
                      /\ trace' = [trace EXCEPT ![t] = Append(@, call)]
                      /\ UNCHANGED context_managers
                 ELSE /\ CallCanRaise(dep_func)
                      /\ Raise(t, Exc("ProviderError", dep_func))
                      /\ trace' = [trace EXCEPT ![t] = @ \o
                             <<call, Event("raise", dep_func, EmptyMap)>>]
                      /\ UNCHANGED <<request_cache, context_managers>>
    /\ UNCHANGED <<qsVars, routes, registered, served,
                   endpoint_fun, solved_kwargs, outcome,
                   reqid, prev>>

\* the outermost _solve_dependencies call returns to run_request
FinishResolution(t) ==
    /\ pc[t] = "resolving"
    /\ Len(stack[t]) = 1
    /\ Top(t).i > Len(Parameters(Top(t).func))
    /\ solved_kwargs' = [solved_kwargs EXCEPT ![t] = Top(t).kwargs_to_pass]
    /\ stack' = [stack EXCEPT ![t] = <<>>]
    /\ pc' = [pc EXCEPT ![t] = "invoking"]
    /\ UNCHANGED <<qsVars, routes, registered, served,
                   endpoint_fun, request_cache,
                   context_managers, exc, outcome, reqid, prev, trace>>

\* response = endpoint_fun(**solved_kwargs) and the status line
InvokeEndpoint(t) ==
    /\ pc[t] = "invoking"
    /\ LET call == Event("call", endpoint_fun[t], solved_kwargs[t]) IN
       \E ok \in BOOLEAN :
         IF ok
         THEN /\ pc' = [pc EXCEPT ![t] = "teardown"]
              /\ trace' = [trace EXCEPT ![t] = Append(@, call)]
              /\ UNCHANGED <<exc, stack>>
         ELSE /\ CallCanRaise(endpoint_fun[t])
              /\ Raise(t, Exc("HandlerError", endpoint_fun[t]))
              /\ trace' = [trace EXCEPT ![t] = @ \o
                     <<call, Event("raise", endpoint_fun[t], EmptyMap)>>]
    /\ UNCHANGED <<qsVars, routes, registered, served,
                   endpoint_fun, request_cache,
                   context_managers, solved_kwargs, outcome, reqid, prev>>

\* the finally block of run_request, then the return to the caller: normally
\* when no exception is in flight, by raising it otherwise
Teardown(t) ==
    /\ pc[t] = "teardown"
    /\ LET r == TeardownLoop(Reverse(context_managers[Scope(t)]))
           e == IF r.exc # NoExc THEN r.exc ELSE exc[t]
       IN
       /\ trace' = [trace EXCEPT ![t] = @ \o r.events]
       /\ exc' = [exc EXCEPT ![t] = e]
       /\ outcome' = [outcome EXCEPT ![t] =
              IF e = NoExc THEN "returned" ELSE "raised"]
    /\ pc' = [pc EXCEPT ![t] = "idle"]
    /\ UNCHANGED <<qsVars, routes, registered, served,
                   endpoint_fun, stack, request_cache,
                   context_managers, solved_kwargs, reqid, prev>>

Next ==
    \/ \E path \in Paths, func \in Handlers : Get(path, func)
    \/ \E t \in Threads, path \in Paths : RunRequest(t, path)
    \/ \E t \in Threads : SolveParameter(t)
    \/ \E t \in Threads : InvokeDependency(t)
    \/ \E t \in Threads : FinishResolution(t)
    \/ \E t \in Threads : InvokeEndpoint(t)
    \/ \E t \in Threads : Teardown(t)

Spec == Init /\ [][Next]_vars

\* run_request is synchronous: a thread inside a request keeps executing its
\* next statement
Step(t) ==
    \/ SolveParameter(t)
    \/ InvokeDependency(t)
    \/ FinishResolution(t)
    \/ InvokeEndpoint(t)
    \/ Teardown(t)

\* the program as the source runs it: one thread of control, which makes the
\* registrations and the requests one after the other
MainThread == "t1"

SeqNext ==
    \/ \E path \in Paths, func \in Handlers : Get(path, func)
    \/ \E path \in Paths : RunRequest(MainThread, path)
    \/ SolveParameter(MainThread)
    \/ InvokeDependency(MainThread)
    \/ FinishResolution(MainThread)
    \/ InvokeEndpoint(MainThread)
    \/ Teardown(MainThread)

FairSpec == Init /\ [][SeqNext]_vars /\ WF_vars(Step(MainThread))

\* ------------------------------------------------------------------------
\* The lazy QuerySet of src/django_orm.py
\* ------------------------------------------------------------------------
\* class User(Model): what ModelMetaclass leaves in User._meta
User == [db_table |-> "auth_user", fields |-> <<"id", "username", "email">>]

\* the keyword arguments the callers pass to filter(), as ordered key/value
\* pairs (a dict keeps the order of the call)
KwargsChoices ==
    { <<>>,
      << <<"id", "1">> >>,
      << <<"username", "shaheer">> >>,
      << <<"username", "shaheer">>, <<"email", "shaheer@gmail.com">> >> }

\* sep.join(items) on sequences of tokens
RECURSIVE Join(_, _)
Join(items, sep) ==
    IF items = <<>> THEN <<>>
    ELSE IF Len(items) = 1 THEN items[1]
    ELSE items[1] \o <<sep>> \o Join(Tail(items), sep)

\* the nested loops of _build_sql: one entry per key of every filter, in
\* order; Clause gives "key = ?", Arg gives the value
Clause(item) == <<item[1], "=", "?">>
Arg(item) == item[2]

RECURSIVE ItemsOf(_)
ItemsOf(filters) ==
    IF filters = <<>> THEN <<>> ELSE Head(filters) \o ItemsOf(Tail(filters))

\* the _filters list of QuerySet q
FiltersOf(qs, ls, q) == ls[qs[q].filters]

\* QuerySet._build_sql: the SQL as a sequence of tokens and the params;
\* params is bound only inside "if self._filters", so the return statement
\* raises UnboundLocalError when the list is empty
build_sql(model, filters) ==
    LET select == <<"SELECT", Join([i \in DOMAIN model.fields |->
                                       <<model.fields[i]>>], ","),
                    "FROM", model.db_table>>
        items == ItemsOf(filters)
    IN
    IF filters # <<>>
    THEN [raised |-> None,
          sql |-> select \o <<"WHERE">>
                     \o Join([i \in DOMAIN items |-> Clause(items[i])], "AND"),
          params |-> [i \in DOMAIN items |-> Arg(items[i])]]
    ELSE [raised |-> "UnboundLocalError", sql |-> <<>>, params |-> <<>>]

\* a clone whose _filters is the receiver's own list object
cloneAliased(qs, ls, q) ==
    [querysets |-> Append(qs, [model |-> qs[q].model,
                               filters |-> qs[q].filters]),
     lists |-> ls]

\* QuerySet._clone: a new QuerySet whose _filters is a new list with the
\* items of the receiver's list
clone(qs, ls, q) ==
    [querysets |-> Append(qs, [model |-> qs[q].model,
                               filters |-> Len(ls) + 1]),
     lists |-> Append(ls, ls[qs[q].filters])]

Called(op, q, kwargs, result) ==
    [seq |-> last_call.seq + 1, op |-> op, self |-> q, kwargs |-> kwargs,
     result |-> result]

\* Manager.get_queryset(): QuerySet(model) with _filters = []
GetQueryset ==
    /\ Len(querysets) < MaxQuerySets
    /\ querysets' = Append(querysets,
                           [model |-> User, filters |-> Len(lists) + 1])
    /\ lists' = Append(lists, <<>>)
    /\ last_call' = Called("get_queryset", 0, <<>>, Len(querysets) + 1)
    /\ UNCHANGED <<executed, fastapiVars>>

\* q.filter(**kwargs)
Filter(q, kwargs) ==
    /\ Len(querysets) < MaxQuerySets
    /\ LET c == clone(querysets, lists, q)
           cloned_qs == Len(c.querysets)
       IN
       /\ querysets' = c.querysets
       /\ lists' = [c.lists EXCEPT ![c.querysets[cloned_qs].filters] =
                        Append(@, kwargs)]
       /\ last_call' = Called("filter", q, kwargs, cloned_qs)
    /\ UNCHANGED <<executed, fastapiVars>>

\* q.all()
All(q) ==
    /\ Len(querysets) < MaxQuerySets
    /\ LET c == clone(querysets, lists, q) IN
       /\ querysets' = c.querysets
       /\ lists' = c.lists
       /\ last_call' = Called("all", q, <<>>, Len(c.querysets))
    /\ UNCHANGED <<executed, fastapiVars>>

\* iter(q) run to its first step: _build_sql, then the "[SQL] Executing" line
Iterate(q) ==
    /\ Len(executed) < MaxExecuted
    /\ executed' = Append(executed,
           [self |-> q,
            filters |-> FiltersOf(querysets, lists, q),
            built |-> build_sql(querysets[q].model,
                                FiltersOf(querysets, lists, q))])
    /\ last_call' = Called("iter", q, <<>>, 0)
    /\ UNCHANGED <<querysets, lists, fastapiVars>>

QSNext ==
    \/ GetQueryset
    \/ \E q \in DOMAIN querysets, kwargs \in KwargsChoices : Filter(q, kwargs)
    \/ \E q \in DOMAIN querysets : All(q)
    \/ \E q \in DOMAIN querysets : Iterate(q)

QSSpec == Init /\ [][QSNext]_vars

\* ------------------------------------------------------------------------
\* Type invariant
\* ------------------------------------------------------------------------
TypeOK ==
    /\ served \in 0..MaxRequests
    /\ \A t \in Threads :
         /\ pc[t] \in {"idle", "resolving", "invoking", "teardown"}
         /\ outcome[t] \in {"none", "404", "returned", "raised"}
         /\ Len(stack[t]) <= RecursionLimit

\* ------------------------------------------------------------------------
\* Vocabulary of the properties
\* ------------------------------------------------------------------------
\* positions of the trace of t at which callable f was invoked
CallsOf(t, f) ==
    {i \in DOMAIN trace[t] : trace[t][i].op = "call" /\ trace[t][i].fn = f}

Calls(t, f) == Cardinality(CallsOf(t, f))

\* positions at which the release phase of provider f was started
ReleasesOf(t, f) ==
    {i \in DOMAIN trace[t] : trace[t][i].op = "release" /\ trace[t][i].fn = f}

\* the request of t has gone back to its caller (not by the 404 path)
Ended(t) == pc[t] = "idle" /\ outcome[t] \in {"returned", "raised"}

\* the providers named by the dependency markers of f
DepsOf(f) ==
    {Parameters(f)[i].default.dependency :
        i \in {j \in DOMAIN Parameters(f) :
                  Parameters(f)[j].default.type = "Depends"}}

RECURSIVE Closure(_, _)
Closure(S, n) ==
    IF n = 0 THEN S ELSE Closure(S \cup UNION {DepsOf(f) : f \in S}, n - 1)

\* every provider in the dependency graph of each callable
ReachTable == [h \in Funcs |-> Closure(DepsOf(h), Cardinality(Funcs))]

\* every provider in the dependency graph of handler h
Reach(h) == ReachTable[h]

\* the scoped providers invoked in the request of t, in resolution order
IsScopedCall(e) == e.op = "call" /\ isgeneratorfunction(e.fn)
ScopedResolved(t) ==
    LET s == SelectSeq(trace[t], IsScopedCall) IN
    [i \in DOMAIN s |-> s[i].fn]

\* the providers whose release phase was started, in that order
IsRelease(e) == e.op = "release"
Released(t) ==
    LET s == SelectSeq(trace[t], IsRelease) IN
    [i \in DOMAIN s |-> s[i].fn]

\* ------------------------------------------------------------------------
\* C1: within one request every callable is invoked at most once, however
\* many parameters name it; in the diamond HC -> {A, B} -> C the shared
\* provider C has been invoked exactly once when the request ends.
\* ------------------------------------------------------------------------
C1_AtMostOncePerRequest ==
    \A t \in Threads :
        /\ \A i, j \in DOMAIN trace[t] :
               (/\ trace[t][i].op = "call" /\ trace[t][j].op = "call"
                /\ trace[t][i].fn = trace[t][j].fn) => i = j
        /\ (Ended(t) /\ endpoint_fun[t] = "HC") => Calls(t, "C") = 1

\* a diamond request that ran to the end: A and B were both invoked, each
\* with a value of C
C1_Witness ==
    \E t \in Threads :
        /\ Ended(t) /\ outcome[t] = "returned" /\ endpoint_fun[t] = "HC"
        /\ Calls(t, "A") = 1 /\ Calls(t, "B") = 1 /\ Calls(t, "C") = 1
        /\ \A i \in CallsOf(t, "A") \cup CallsOf(t, "B") :
               trace[t][i].args["c"].by = "C"

\* ------------------------------------------------------------------------
\* C2: a dependent of a scoped provider (a generator function) is invoked
\* with the value the provider yielded, never with the suspended generator,
\* and the provider then has exactly one entry in the teardown list.
\* ------------------------------------------------------------------------
C2_ScopedProviderYieldsValue ==
    \A t \in Threads :
        \A i \in DOMAIN trace[t] :
            trace[t][i].op = "call" =>
                \A n \in DOMAIN trace[t][i].args :
                    LET v == trace[t][i].args[n] IN
                    isgeneratorfunction(v.by) =>
                        /\ v.kind = "value"
                        /\ Cardinality({k \in DOMAIN context_managers[Scope(t)] :
                               context_managers[Scope(t)][k].by = v.by}) = 1

C6_ProviderFailureAborts ==
    \A t \in Threads :
        /\ pc[t] # "idle" => outcome[t] = "none"
        /\ \A i \in DOMAIN trace[t] :
             (trace[t][i].op = "raise" /\ trace[t][i].fn # endpoint_fun[t]) =>
                /\ pc[t] \in {"teardown", "idle"}
                /\ \A j \in DOMAIN trace[t] :
                       j > i => trace[t][j].op \notin {"call", "acquire"}
                /\ Calls(t, endpoint_fun[t]) = 0
                /\ Calls(t, trace[t][i].fn) = 1
                /\ exc[t] = Exc("ProviderError", trace[t][i].fn)
                /\ pc[t] = "idle" => outcome[t] = "raised"

\* the diamond request in which A raised after C was invoked: B was never
\* invoked and the caller got A's failure
C6_Witness ==
    \E t \in Threads :
        /\ Ended(t) /\ outcome[t] = "raised" /\ endpoint_fun[t] = "HC"
        /\ exc[t] = Exc("ProviderError", "A")
        /\ Calls(t, "C") = 1 /\ Calls(t, "A") = 1 /\ Calls(t, "B") = 0

\* ------------------------------------------------------------------------
\* C7: a request that returns normally has invoked every provider of its
\* handler's dependency graph exactly once, and every argument a callable
\* received was produced in this very request; this holds in particular for
\* a second request on the handler a first request has already run.
\* ------------------------------------------------------------------------
C7_NoCrossRequestCaching ==
    \A t \in Threads :
        (pc[t] = "idle" /\ outcome[t] = "returned") =>
            /\ \A f \in Reach(endpoint_fun[t]) : Calls(t, f) = 1
            /\ \A i \in DOMAIN trace[t] :
                   \A n \in DOMAIN trace[t][i].args :
                       trace[t][i].args[n].req = reqid[t]

\* a thread has returned from its second request on the same handler, the
\* first having returned normally too
C7_Witness ==
    \E t \in Threads :
        /\ pc[t] = "idle" /\ outcome[t] = "returned"
        /\ prev[t] = [fn |-> endpoint_fun[t], outcome |-> "returned"]
        /\ Reach(endpoint_fun[t]) # {}
        /\ \A f \in Reach(endpoint_fun[t]) : Calls(t, f) = 1

\* ------------------------------------------------------------------------
\* C8: while requests of two threads are interleaved, everything a request
\* holds in its cache, in its teardown list and in the arguments it passes
\* was produced by that same request.
\* ------------------------------------------------------------------------
C8_RequestIsolation ==
    \A t \in Threads :
        pc[t] # "idle" =>
            /\ \A f \in DOMAIN request_cache[Scope(t)] :
                   request_cache[Scope(t)][f].req = reqid[t]
            /\ \A k \in DOMAIN context_managers[Scope(t)] :
                   context_managers[Scope(t)][k].req = reqid[t]
            /\ \A n \in DOMAIN solved_kwargs[t] :
                   solved_kwargs[t][n].req = reqid[t]
            /\ \A i \in DOMAIN trace[t] :
                   \A n \in DOMAIN trace[t][i].args :
                       trace[t][i].args[n].req = reqid[t]

\* two requests on the same handler in flight at once, both with resolved
\* providers in their caches and one of them with a cache hit behind it
C8_Witness ==
    /\ \A t \in Threads :
           /\ pc[t] # "idle"
           /\ endpoint_fun[t] = "HC"
           /\ DOMAIN request_cache[Scope(t)] # {}
    /\ \E t \in Threads : Calls(t, "B") = 1

\* ------------------------------------------------------------------------
\* C9: a dependency cycle is detected: the resolver never re-enters a
\* provider whose resolution is still in progress, and it never runs into
\* the interpreter's recursion limit.
\* ------------------------------------------------------------------------
C9_CycleDetected ==
    \A t \in Threads :
        /\ \A i, j \in DOMAIN stack[t] :
               i # j => stack[t][i].func # stack[t][j].func
        /\ exc[t].type # "RecursionError"

\* ------------------------------------------------------------------------
\* C10: a parameter whose default is a plain value never makes resolution
\* fail and never causes a cache write: no request dies of a KeyError or
\* UnboundLocalError raised while such a parameter is processed, and the
\* cache has keys only for providers named by markers.
\* ------------------------------------------------------------------------
HasPlainDefault(func, name) ==
    \E i \in DOMAIN Parameters(func) :
        /\ Parameters(func)[i].name = name
        /\ Parameters(func)[i].default.type = "value"

C10_PlainParameterPassesThrough ==
    \A t \in Threads :
        /\ exc[t].type \in {"KeyError", "UnboundLocalError"} =>
               ~HasPlainDefault(exc[t].by, exc[t].param)
        /\ pc[t] # "idle" =>
               DOMAIN request_cache[Scope(t)] \subseteq Reach(endpoint_fun[t])

\* ------------------------------------------------------------------------
\* C12: a parameter with no default and no marker is reported while its
\* owner is being resolved: the loop never steps past it, the owner is never
\* invoked, and a request that reaches it ends by raising.
\* ------------------------------------------------------------------------
IsRequired(func, i) == Parameters(func)[i].default.type = "empty"

HasRequiredParam(func) == \E i \in DOMAIN Parameters(func) : IsRequired(func, i)

C12_UnresolvableParameterReported ==
    \A t \in Threads :
        /\ \A i \in DOMAIN trace[t] :
               trace[t][i].op = "call" => ~HasRequiredParam(trace[t][i].fn)
        /\ \A k \in DOMAIN stack[t] :
               \A i \in DOMAIN Parameters(stack[t][k].func) :
                   IsRequired(stack[t][k].func, i) => stack[t][k].i <= i
        /\ (exc[t].type = "KeyError" /\ ~HasPlainDefault(exc[t].by, exc[t].param))
               => /\ pc[t] \in {"teardown", "idle"}
                  /\ Calls(t, exc[t].by) = 0
                  /\ Calls(t, endpoint_fun[t]) = 0
                  /\ pc[t] = "idle" => outcome[t] = "raised"

\* the request on HR ended with the error naming R's parameter n, R and HR
\* never having been invoked
C12_Witness ==
    \E t \in Threads :
        /\ Ended(t) /\ outcome[t] = "raised" /\ endpoint_fun[t] = "HR"
        /\ exc[t] = KeyError("R", "n")
        /\ Calls(t, "R") = 0 /\ Calls(t, "HR") = 0

\* ------------------------------------------------------------------------
\* C13: a request moves resolving -> invoking -> teardown -> done, with the
\* side step resolving -> teardown taken exactly on a failure; the endpoint
\* is entered only with resolution complete and no exception in flight, the
\* finally block starts only with every resolver frame gone, and the outcome
\* is set only by the step that ends the finally block.
\* ------------------------------------------------------------------------
PhaseSteps ==
    {<<"idle", "resolving">>, <<"resolving", "invoking">>,
     <<"resolving", "teardown">>, <<"invoking", "teardown">>,
     <<"teardown", "idle">>}

C13_PhaseOrder ==
    [][\A t \in Threads :
          /\ pc'[t] # pc[t] => <<pc[t], pc'[t]>> \in PhaseSteps
          /\ (pc[t] = "idle" /\ pc'[t] = "resolving") => reqid'[t] # reqid[t]
          /\ pc[t] # "idle" => reqid'[t] = reqid[t]
          /\ (pc[t] = "resolving" /\ pc'[t] = "invoking") =>
                 /\ exc'[t] = NoExc
                 /\ Len(stack[t]) = 1 /\ stack'[t] = <<>>
          /\ (pc[t] = "resolving" /\ pc'[t] = "teardown") => exc'[t] # NoExc
          /\ pc'[t] = "teardown" => stack'[t] = <<>>
          /\ Len(trace'[t]) > Len(trace[t]) =>
                 \A i \in (Len(trace[t]) + 1)..Len(trace'[t]) :
                     (trace'[t][i].op = "call"
                         /\ trace'[t][i].fn = endpoint_fun[t])
                     => pc[t] = "invoking"
          /\ (outcome'[t] # outcome[t]
                 /\ outcome'[t] \in {"returned", "raised"})
                 => (pc[t] = "teardown" /\ pc'[t] = "idle")
      ]_vars

\* a request that took the side step from the endpoint's failure and was
\* reported as raised
C13_Witness ==
    \E t \in Threads :
        /\ Ended(t) /\ outcome[t] = "raised"
        /\ exc[t] = Exc("HandlerError", endpoint_fun[t])
        /\ Calls(t, endpoint_fun[t]) = 1

\* ------------------------------------------------------------------------
\* C14: a callable is invoked with exactly one argument per marked
\* parameter, each being the result of an earlier invocation, in this
\* request, of the provider the marker names; so on the chain
\* HB -> P2 -> P1 the invocations are P1, P2, HB.
\* ------------------------------------------------------------------------
MarkedNames(f) ==
    {Parameters(f)[k].name :
        k \in {j \in DOMAIN Parameters(f) :
                  Parameters(f)[j].default.type = "Depends"}}

C14_DepthFirstOrder ==
    \A t \in Threads :
        \A i \in DOMAIN trace[t] :
            trace[t][i].op = "call" =>
                LET f == trace[t][i].fn
                    args == trace[t][i].args
                IN
                /\ DOMAIN args = MarkedNames(f)
                /\ \A k \in DOMAIN Parameters(f) :
                       Parameters(f)[k].default.type = "Depends" =>
                           LET v == args[Parameters(f)[k].name] IN
                           /\ v.by = Parameters(f)[k].default.dependency
                           /\ v.req = reqid[t]
                           /\ v.n < i
                           /\ trace[t][v.n].op = "call"
                           /\ trace[t][v.n].fn = v.by

C14_Witness ==
    \E t \in Threads :
        /\ Ended(t) /\ outcome[t] = "returned" /\ endpoint_fun[t] = "HB"
        /\ [i \in DOMAIN trace[t] |-> trace[t][i].fn] = <<"P1", "P2", "HB">>
        /\ trace[t][3].args["p2"].by = "P2"
        /\ trace[t][2].args["p1"].by = "P1"

\* ------------------------------------------------------------------------
\* C15: within a request a provider's cache entry is the result of its one
\* invocation, is there as soon as that invocation has returned, is what
\* every parameter naming the provider receives, and never changes.
\* ------------------------------------------------------------------------
RaisedIn(t, f) ==
    \E i \in DOMAIN trace[t] : trace[t][i].op = "raise" /\ trace[t][i].fn = f

C15_CacheState ==
    \A t \in Threads :
        pc[t] # "idle" =>
            LET cache == request_cache[Scope(t)] IN
            /\ \A f \in DOMAIN cache :
                   /\ cache[f].by = f
                   /\ CallsOf(t, f) = {cache[f].n}
            /\ \A i \in DOMAIN trace[t] :
                   LET f == trace[t][i].fn IN
                   (/\ trace[t][i].op = "call"
                    /\ ~RaisedIn(t, f) /\ f # endpoint_fun[t])
                       => f \in DOMAIN cache
            /\ \A i \in DOMAIN trace[t] :
                   \A n \in DOMAIN trace[t][i].args :
                       LET v == trace[t][i].args[n] IN
                       v.by \in DOMAIN cache /\ cache[v.by] = v

C15_CacheStep ==
    \A t \in Threads :
        reqid'[t] = reqid[t] =>
            \/ request_cache'[Scope(t)] = request_cache[Scope(t)]
            \/ \A f \in DOMAIN request_cache[Scope(t)] :
                   /\ f \in DOMAIN request_cache'[Scope(t)]
                   /\ request_cache'[Scope(t)][f] = request_cache[Scope(t)][f]

C15_SingleCachedValue == [] C15_CacheState /\ [][C15_CacheStep]_vars

\* the diamond with both A and B invoked: each received the cached result of
\* the one invocation of C
C15_Witness ==
    \E t \in Threads :
        /\ pc[t] = "teardown" /\ endpoint_fun[t] = "HC" /\ exc[t] = NoExc
        /\ \A f \in {"A", "B"} :
               \E i \in CallsOf(t, f) :
                   trace[t][i].args["c"] = request_cache[Scope(t)]["C"]

Acyclic(h) == \A f \in Reach(h) \cup {h} : f \notin Reach(f)

RECURSIVE ChainLen(_)
ChainLen(f) ==
    IF DepsOf(f) = {}
    THEN 1
    ELSE LET lens == {ChainLen(d) : d \in DepsOf(f)} IN
         1 + CHOOSE m \in lens : \A x \in lens : x <= m

C17_DepthBound ==
    \A t \in Threads :
        (pc[t] # "idle" /\ Acyclic(endpoint_fun[t])) =>
            Len(stack[t]) <= ChainLen(endpoint_fun[t])

C17_RequestTerminates ==
    /\ [] C17_DepthBound
    /\ \A t \in Threads :
           (pc[t] = "resolving" /\ Acyclic(endpoint_fun[t])) ~> Ended(t)

\* a request on a chain of three callables that came back normally
C17_Witness ==
    \E t \in Threads :
        /\ Ended(t) /\ outcome[t] = "returned"
        /\ Acyclic(endpoint_fun[t]) /\ ChainLen(endpoint_fun[t]) = 3
        /\ \A f \in Reach(endpoint_fun[t]) : Calls(t, f) = 1

\* ------------------------------------------------------------------------
\* C18: a path is bound to the function most recently registered for it;
\* run_request on a path bound to nothing touches no cache and no teardown
\* list, invokes nothing and returns, and on a bound path the function that
\* is run is the one the path is bound to.
\* ------------------------------------------------------------------------
C18_RouteState ==
    /\ routes = registered
    /\ \A t \in Threads :
           /\ outcome[t] = "404" =>
                  pc[t] = "idle" /\ trace[t] = <<>> /\ exc[t] = NoExc
           /\ \A i \in DOMAIN trace[t] :
                  (trace[t][i].op = "call" /\ trace[t][i].fn \in Handlers)
                      => trace[t][i].fn = endpoint_fun[t]

C18_RouteStep ==
    \A t \in Threads :
        reqid'[t] # reqid[t] =>
            \E path \in Paths :
                IF registered[path] = None
                THEN /\ outcome'[t] = "404"
                     /\ pc'[t] = "idle"
                     /\ request_cache' = request_cache
                     /\ context_managers' = context_managers
                     /\ stack' = stack
                ELSE /\ endpoint_fun'[t] = registered[path]
                     /\ pc'[t] = "resolving"
                     /\ stack'[t] = <<NewFrame(registered[path])>>

C18_Routing == [] C18_RouteState /\ [][C18_RouteStep]_vars

\* a thread whose first request found nothing on the path and whose second,
\* after a registration, ran the registered function
C18_Witness ==
    \E t \in Threads :
        /\ prev[t] = [fn |-> None, outcome |-> "404"]
        /\ Ended(t) /\ outcome[t] = "returned"
        /\ \E path \in Paths : endpoint_fun[t] = registered[path]
        /\ Calls(t, endpoint_fun[t]) = 1

\* ------------------------------------------------------------------------
\* C19: filter and all leave every existing QuerySet, the receiver included,
\* with the filter list it had; what they return is a new QuerySet with a
\* list object of its own holding the receiver's items (followed by the new
\* predicate, for filter); and only iterating builds or executes SQL.
\* ------------------------------------------------------------------------
C19_Step ==
    /\ \A q \in DOMAIN querysets :
           /\ q \in DOMAIN querysets'
           /\ querysets'[q] = querysets[q]
           /\ FiltersOf(querysets', lists', q) = FiltersOf(querysets, lists, q)
    /\ (last_call'.seq # last_call.seq /\ last_call'.op \in {"filter", "all"})
           => LET q == last_call'.self
                  r == last_call'.result
              IN
              /\ q \in DOMAIN querysets
              /\ r \in DOMAIN querysets' \ DOMAIN querysets
              /\ \A o \in DOMAIN querysets :
                     querysets'[r].filters # querysets[o].filters
              /\ FiltersOf(querysets', lists', r) =
                     IF last_call'.op = "filter"
                     THEN Append(FiltersOf(querysets, lists, q),
                                 last_call'.kwargs)
                     ELSE FiltersOf(querysets, lists, q)
    /\ executed' # executed => last_call'.op = "iter"

C19_FilterAndAllAreLazy == [][C19_Step]_vars

\* a filter on a QuerySet that already had a predicate: the result has both,
\* the receiver still has one, and no SQL has been built
C19_Witness ==
    /\ last_call.op = "filter"
    /\ last_call.kwargs # <<>>
    /\ FiltersOf(querysets, lists, last_call.self) # <<>>
    /\ FiltersOf(querysets, lists, last_call.result) =
           Append(FiltersOf(querysets, lists, last_call.self),
                  last_call.kwargs)
    /\ executed = <<>>

\* ------------------------------------------------------------------------
\* C20: _build_sql gives a (sql, params) pair for every QuerySet: without
\* filters no WHERE and no params; with filters one "key = ?" per filter
\* key joined by AND and the values in the same order; as many placeholders
\* as params.
\* ------------------------------------------------------------------------
Placeholders(sql) == Cardinality({i \in DOMAIN sql : sql[i] = "?"})

C20_BuildSqlPair ==
    \A k \in DOMAIN executed :
        LET filters == executed[k].filters
            built == executed[k].built
            items == ItemsOf(filters)
        IN
        /\ built.raised = None
        /\ Placeholders(built.sql) = Len(built.params)
        /\ Len(built.params) = Len(items)
        /\ \A i \in DOMAIN items : built.params[i] = items[i][2]
        /\ filters = <<>> =>
               /\ \A i \in DOMAIN built.sql : built.sql[i] # "WHERE"
               /\ built.params = <<>>
        /\ filters # <<>> =>
               \E w \in DOMAIN built.sql :
                   /\ built.sql[w] = "WHERE"
                   /\ SubSeq(built.sql, w + 1, Len(built.sql)) =
                          Join([i \in DOMAIN items |->
                                   <<items[i][1], "=", "?">>], "AND")
====
